---- MODULE Spec2Model ----
(***************************************************************************)
(* Model of the delira training core:                                      *)
(*   - WeightedRandomSampler (data_loading/sampler/weighted_sampler.py)    *)
(*   - the batch normalisers and initialize_uninitialized                  *)
(*     (training/train_utils.py)                                           *)
(*   - TfNetworkTrainer (training/tf_trainer.py)                           *)
(* Each component has its own specification (SpecSampler, ...), all over   *)
(* the same variables; the variables of the other components stay at their *)
(* initial values.                                                         *)
(***************************************************************************)
EXTENDS Integers, Sequences, FiniteSets, TLC

\* ------------------------------------------------------------------ bounds
MaxN == 4          \* largest population: len(indices) ranges over 0..MaxN
MaxReq == 3        \* largest n_indices requested from _get_indices
MaxArgs == 2       \* most positional arguments handed to a batch converter
MaxVars == 3       \* variables the TensorFlow graph can hold
MaxEpoch == 2      \* largest start_epoch a caller supplies
MaxSteps == 2      \* training batches after which the model's weights stop changing

\* --------------------------------------------------------- Python values
NoneVal == -1          \* Python's None, where an integer or None may stand

VARIABLES
    \* ---- WeightedRandomSampler
    indices,         \* __init__ argument: the label list, as its length
    weights,         \* __init__ argument: None or the weight vector, as its length
    ctor,            \* how the constructor call ended: "pending", "returned", "NameError"
    attrs,           \* the attributes assigned on self so far (its __dict__ keys)
    _indices,        \* self._indices: the list [0, ..., N-1]
    _weights,        \* self._weights: None or the weight vector's length
    _global_index,   \* self._global_index: the cursor
    samples,         \* what the last _get_indices call returned (<<>> if it raised)
    call,            \* the last call on the sampler: op, argument, exception, ...
    passTotal,       \* indices handed out since construction or the last StopIteration
    run,             \* the run of equal requests n >= 1 under way: its n, its batches so far
    \* ---- two callers sharing the sampler
    th,              \* per caller: where it stands in _get_indices, and its locals
    handed,          \* indices returned to the callers since the last StopIteration
    overlapped,      \* whether a call ever started while another was under way
    \* ---- batch converters (train_utils.py)
    conv,            \* one converter call: function, eager flag, *args, **kwargs, result
    \* ---- the TensorFlow session graph (train_utils.initialize_uninitialized)
    varState,        \* per graph variable: "absent", "uninit", "init" or "trained"
    tfop,            \* the last operation run on the graph or session
    iu,              \* the last initialize_uninitialized call: state before, what it ran
    \* ---- TfNetworkTrainer
    tpc,             \* "new", "idle", "train", "predict" or "finished"
    start_arg,       \* the start_epoch argument given to __init__ (None: not given)
    start_epoch,     \* the starting epoch the trainer holds
    optimizers,      \* self.optimizers: the names of the optimizers created
    setupLog,        \* the steps _setup ran, in order, and how often optim_fn was called
    use_gpu,         \* self.use_gpu
    training,        \* self.module.training, the model's mode flag
    phase,           \* the phase entered last: "none", "train" or "predict"
    batchLog,        \* <<phase, training flag>> of every batch processed
    weightsVer,      \* the version of the weights the model holds
    best,            \* the weights version in checkpoint_best (None: no such file)
    ended            \* what _at_training_end found, did and returned

threadVars == <<th, handed, overlapped>>

samplerVars == <<indices, weights, ctor, attrs, _indices, _weights, _global_index,
                 samples, call, passTotal, run, threadVars>>

tfVars == <<varState, tfop, iu>>

trainerVars == <<tpc, start_arg, start_epoch, optimizers, setupLog, use_gpu, training,
                 phase, batchLog, weightsVer, best, ended>>

vars == <<samplerVars, conv, tfVars, trainerVars>>

\* =================================================== WeightedRandomSampler

\* list(range(n))
Range(n) == [i \in 1..n |-> i - 1]

\* The names the body of __init__ can resolve: its parameters, and the names
\* the module binds (its imports and the class).  Builtins hold none of the
\* names __init__ reads.
InitScope == {"self", "indices", "weights",
              "AbstractDataset", "AbstractSampler", "choice",
              "WeightedRandomSampler"}

\* The name line 28 reads to assign self._weights.
WeightsName == "weight"

NoRun == [n |-> NoneVal, batches |-> 0]

NoCall == [op |-> "none", n |-> 0, raised |-> "none",
           before |-> NoneVal, total |-> 0, count |-> 0]

\* WeightedRandomSampler(indices, weights): line 27 assigns self._indices,
\* line 28 evaluates the name `weight`, which no scope binds: NameError, and
\* neither self._weights nor self._global_index is ever assigned.
__init__(indices_arg, weights_arg) ==
    /\ ctor = "pending"
    /\ indices' = indices_arg
    /\ weights' = weights_arg
    /\ _indices' = Range(indices_arg)
    /\ IF WeightsName \in InitScope
       THEN /\ _weights' = weights_arg
            /\ _global_index' = 0
            /\ attrs' = {"_indices", "_weights", "_global_index"}
            /\ ctor' = "returned"
            /\ call' = [NoCall EXCEPT !.op = "__init__"]
       ELSE /\ attrs' = {"_indices"}
            /\ ctor' = "NameError"
            /\ UNCHANGED <<_weights, _global_index>>
            /\ call' = [NoCall EXCEPT !.op = "__init__", !.raised = "NameError"]
    /\ UNCHANGED <<samples, passTotal, run, threadVars, conv, tfVars, trainerVars>>

\* numpy.random.choice(a, size, p): ValueError when p is given and its length
\* is not that of a; otherwise `size` draws (with replacement) from a.
ChoiceRaises(a, p) == p # NoneVal /\ p # Len(a)

ChoiceResults(a, size) == [1..size -> {a[i] : i \in 1..Len(a)}]

\* sampler._get_indices(n_indices), on the object as __init__ left it: when
\* __init__ raised, the attributes assigned before the raise are all it has.
_get_indices(n_indices) ==
    /\ ctor # "pending"
    /\ IF "_global_index" \notin attrs
       THEN \* line 77 reads self._global_index: AttributeError
            /\ call' = [op |-> "_get_indices", n |-> n_indices,
                        raised |-> "AttributeError", before |-> NoneVal,
                        total |-> passTotal, count |-> 0]
            /\ samples' = <<>>
            /\ UNCHANGED <<_global_index, passTotal, run>>
       ELSE IF _global_index >= Len(_indices)
       THEN \* lines 77-79
            /\ _global_index' = 0
            /\ call' = [op |-> "_get_indices", n |-> n_indices,
                        raised |-> "StopIteration", before |-> _global_index,
                        total |-> passTotal, count |-> 0]
            /\ samples' = <<>>
            /\ passTotal' = 0
            /\ run' = NoRun
       ELSE LET sum == _global_index + n_indices
                new_global_idx == IF sum >= Len(_indices)
                                  THEN Len(_indices) ELSE sum
                size == new_global_idx - _global_index
            IN IF ChoiceRaises(_indices, _weights)
               THEN \* lines 87-89 raise before the cursor is written
                    /\ call' = [op |-> "_get_indices", n |-> n_indices,
                                raised |-> "ValueError",
                                before |-> _global_index,
                                total |-> passTotal, count |-> 0]
                    /\ samples' = <<>>
                    /\ UNCHANGED <<_global_index, passTotal, run>>
               ELSE \E drawn \in ChoiceResults(_indices, size) :
                    /\ samples' = drawn
                    /\ _global_index' = new_global_idx
                    /\ call' = [op |-> "_get_indices", n |-> n_indices,
                                raised |-> "none", before |-> _global_index,
                                total |-> passTotal, count |-> Len(drawn)]
                    /\ passTotal' = passTotal + Len(drawn)
                    /\ run' = IF n_indices = 0
                               THEN NoRun
                               ELSE IF run.n = n_indices
                                    THEN [run EXCEPT !.batches = @ + 1]
                                    ELSE [n |-> n_indices, batches |-> 1]
    /\ UNCHANGED <<indices, weights, ctor, attrs, _indices, _weights, threadVars,
                   conv, tfVars, trainerVars>>

\* len(sampler)
__len__ == Len(_indices)

\* ---- two callers on one sampler

Threads == {1, 2}

\* A caller outside _get_indices; raised and n tell how its last call ended.
Idle == [pc |-> "idle", n |-> 0, new_global_idx |-> 0, size |-> 0,
         raised |-> "none", total |-> 0]

\* One step of caller t inside _get_indices(n_indices); the attribute reads
\* and the write of the cursor are separate steps, between which the other
\* caller may run.
\*   "idle":    the call starts; line 77 reads the cursor (lines 78-79 when
\*              the pass is over)
\*   "compute": lines 81-85, new_global_idx from the cursor as read now
\*   "draw":    lines 87-89, the size from the cursor as read now; numpy
\*              raises ValueError for a negative size or unfit weights
\*   "write":   lines 91-92, the cursor is written and the batch returned
ThreadStep(t, n_indices) ==
    /\ ctor # "pending"
    /\ LET me == th[t]
           other == CHOOSE u \in Threads : u # t
       IN CASE me.pc = "idle" ->
               IF "_global_index" \notin attrs
               THEN /\ th' = [th EXCEPT ![t] =
                                 [Idle EXCEPT !.n = n_indices,
                                              !.raised = "AttributeError",
                                              !.total = handed]]
                    /\ UNCHANGED <<_global_index, handed, overlapped>>
               ELSE /\ overlapped' = (overlapped \/ th[other].pc # "idle")
                    /\ IF _global_index >= Len(_indices)
                       THEN /\ _global_index' = 0
                            /\ handed' = 0
                            /\ th' = [th EXCEPT ![t] =
                                         [Idle EXCEPT !.n = n_indices,
                                                      !.raised = "StopIteration",
                                                      !.total = handed]]
                       ELSE /\ th' = [th EXCEPT ![t] =
                                         [Idle EXCEPT !.pc = "compute",
                                                      !.n = n_indices,
                                                      !.total = handed]]
                            /\ UNCHANGED <<_global_index, handed>>
            [] me.pc = "compute" ->
               LET sum == _global_index + me.n
               IN /\ th' = [th EXCEPT ![t].pc = "draw",
                                      ![t].new_global_idx =
                                          IF sum >= Len(_indices)
                                          THEN Len(_indices) ELSE sum]
                  /\ UNCHANGED <<_global_index, handed, overlapped>>
            [] me.pc = "draw" ->
               LET size == me.new_global_idx - _global_index
               IN /\ IF size < 0 \/ ChoiceRaises(_indices, _weights)
                     THEN th' = [th EXCEPT ![t] =
                                     [Idle EXCEPT !.n = me.n,
                                                  !.raised = "ValueError",
                                                  !.total = me.total]]
                     ELSE th' = [th EXCEPT ![t].pc = "write", ![t].size = size]
                  /\ UNCHANGED <<_global_index, handed, overlapped>>
            [] me.pc = "write" ->
               /\ _global_index' = me.new_global_idx
               /\ handed' = handed + me.size
               /\ th' = [th EXCEPT ![t] = [me EXCEPT !.pc = "idle"]]
               /\ UNCHANGED overlapped
    /\ UNCHANGED <<indices, weights, ctor, attrs, _indices, _weights, samples,
                   call, passTotal, run, conv, tfVars, trainerVars>>


\* ========================================== batch converters (train_utils)

\* The values a batch holds.  kind "ndarray": a numpy array of rank 0 (shape
\* ()) or rank 1; "Tensor": a zero-rank tf.Tensor; "int": a Python int;
\* "int64": a numpy integer scalar (an element of a rank-1 array).
Scalars == {0, 1}

Arr0(v) == [kind |-> "ndarray", rank |-> 0, data |-> <<v>>]

Arr1(d) == [kind |-> "ndarray", rank |-> 1, data |-> d]

PyInt(v) == [kind |-> "int", rank |-> 0, data |-> <<v>>]

NpInt(v) == [kind |-> "int64", rank |-> 0, data |-> <<v>>]

Tensor0(v) == [kind |-> "Tensor", rank |-> 0, data |-> <<v>>]

Values ==
    {Arr0(v) : v \in Scalars} \cup {Arr1(<<v>>) : v \in Scalars}
    \cup {Arr1(<<v, w>>) : v \in Scalars, w \in Scalars}
    \cup {PyInt(v) : v \in Scalars} \cup {Tensor0(v) : v \in Scalars}

Keys == {"x", "y"}

\* if isinstance(arg, np.ndarray) and arg.shape == (): arg = arg.reshape(1)
_check_and_correct_zero_shape(arg) ==
    IF arg.kind = "ndarray" /\ arg.rank = 0
    THEN [arg EXCEPT !.rank = 1]
    ELSE arg

\* if isinstance(tensor, tf.Tensor): return tensor.numpy()
_convert_tensor_to_npy_eager(tensor) ==
    IF tensor.kind = "Tensor"
    THEN [tensor EXCEPT !.kind = "ndarray"]
    ELSE tensor

\* convert_fn of convert_tf_tensor_to_npy: the eager conversion, or the
\* identity defined at lines 240-241.
convert_fn(eager, tensor) ==
    IF eager THEN _convert_tensor_to_npy_eager(tensor) ELSE tensor

\* The function a loop applies to each value.
Apply(fn, eager, v) ==
    IF fn = "convert_fn" THEN convert_fn(eager, v)
    ELSE _check_and_correct_zero_shape(v)

\* Python's `idx, arg = item`: what unpacking one item of the list into two
\* targets raises.  A zero-rank array or tensor and an int cannot be
\* iterated (TypeError); a rank-1 array unpacks only when it has 2 elements.
UnpackRaises(item) ==
    IF item.rank = 0 THEN "TypeError"
    ELSE IF Len(item.data) # 2 THEN "ValueError"
    ELSE "none"

\* `for idx, arg in args: args[idx] = fn(arg)` (lines 45-46 and 244-245): the
\* loop runs over the items of the list itself, not over enumerate(args), so
\* each item is unpacked into (idx, arg) and args[idx] is overwritten.
\* i is the position the list iterator stands at.
RECURSIVE ForIdxArgInArgs(_, _, _, _)
ForIdxArgInArgs(args, fn, eager, i) ==
    IF i > Len(args) THEN [exc |-> "none", args |-> args]
    ELSE LET item == args[i]
             exc == UnpackRaises(item)
         IN IF exc # "none" THEN [exc |-> exc, args |-> args]
            ELSE LET idx == item.data[1]
                     arg == NpInt(item.data[2])
                 IN IF idx >= Len(args)
                    THEN [exc |-> "IndexError", args |-> args]
                    ELSE ForIdxArgInArgs(
                             [args EXCEPT ![idx + 1] = Apply(fn, eager, arg)],
                             fn, eager, i + 1)

\* `for key, val in kwargs.items(): kwargs[key] = fn(val)`
ForKeyValInKwargs(kwargs, fn, eager) ==
    [k \in DOMAIN kwargs |-> Apply(fn, eager, kwargs[k])]

NoKwargs == [k \in {} |-> Arr0(0)]

Raise(exc) == [exc |-> exc, args |-> <<>>, kwargs |-> NoKwargs]

\* convert_batch_to_numpy_identity(*args, **kwargs)
convert_batch_to_numpy_identity(args, kwargs) ==
    LET looped == ForIdxArgInArgs(args, "_check_and_correct_zero_shape", FALSE, 1)
    IN IF looped.exc # "none" THEN Raise(looped.exc)
       ELSE [exc |-> "none", args |-> looped.args,
             kwargs |-> ForKeyValInKwargs(kwargs,
                            "_check_and_correct_zero_shape", FALSE)]

\* convert_tf_tensor_to_npy(*args, **kwargs), with tf.executing_eagerly()
convert_tf_tensor_to_npy(eager, args, kwargs) ==
    LET looped == ForIdxArgInArgs(args, "convert_fn", eager, 1)
    IN IF looped.exc # "none" THEN Raise(looped.exc)
       ELSE convert_batch_to_numpy_identity(
                looped.args, ForKeyValInKwargs(kwargs, "convert_fn", eager))

NoConv == [fn |-> "none", eager |-> FALSE, args |-> <<>>, kwargs |-> NoKwargs,
           result |-> Raise("pending")]

ArgLists == UNION {[1..n -> Values] : n \in 0..MaxArgs}

KwargMaps == UNION {[ks -> Values] : ks \in SUBSET Keys}

\* A caller hands a batch to convert_batch_to_numpy_identity.
CallConvertIdentity ==
    /\ conv.fn = "none"
    /\ \E args \in ArgLists, kwargs \in KwargMaps :
           conv' = [fn |-> "convert_batch_to_numpy_identity", eager |-> FALSE,
                    args |-> args, kwargs |-> kwargs,
                    result |-> convert_batch_to_numpy_identity(args, kwargs)]
    /\ UNCHANGED <<samplerVars, tfVars, trainerVars>>

\* A caller hands a batch to convert_tf_tensor_to_npy.
CallConvertTf ==
    /\ conv.fn = "none"
    /\ \E eager \in BOOLEAN, args \in ArgLists, kwargs \in KwargMaps :
           conv' = [fn |-> "convert_tf_tensor_to_npy", eager |-> eager,
                    args |-> args, kwargs |-> kwargs,
                    result |-> convert_tf_tensor_to_npy(eager, args, kwargs)]
    /\ UNCHANGED <<samplerVars, tfVars, trainerVars>>

\* ---- torch backend

TorchTensor0(v) == [kind |-> "torch.Tensor", rank |-> 0, data |-> <<v>>]

TorchTensor1(d) == [kind |-> "torch.Tensor", rank |-> 1, data |-> d]

\* The values a batch of the torch backend holds.
TorchValues ==
    {Arr0(v) : v \in Scalars} \cup {Arr1(<<v>>) : v \in Scalars}
    \cup {PyInt(v) : v \in Scalars} \cup {TorchTensor0(v) : v \in Scalars}
    \cup {TorchTensor1(<<v, w>>) : v \in Scalars, w \in Scalars}

\* isinstance(_arg, torch.Tensor)
IsTorchTensor(v) == v.kind = "torch.Tensor"

\* _arg.detach().cpu().numpy(): the array of the same shape and values
TorchToNumpy(t) == [t EXCEPT !.kind = "ndarray"]

\* convert_torch_tensor_to_npy(*args, **kwargs).  The list comprehension of
\* lines 144-145 keeps only the tensors among the positional arguments; the
\* keyword loop of lines 146-148 converts tensors in place.
convert_torch_tensor_to_npy(args, kwargs) ==
    LET tensors == SelectSeq(args, IsTorchTensor)
        converted == [i \in 1..Len(tensors) |-> TorchToNumpy(tensors[i])]
        kw == [k \in DOMAIN kwargs |->
                   IF IsTorchTensor(kwargs[k]) THEN TorchToNumpy(kwargs[k])
                   ELSE kwargs[k]]
    IN convert_batch_to_numpy_identity(converted, kw)

TorchArgLists == UNION {[1..n -> TorchValues] : n \in 0..MaxArgs}

TorchKwargMaps == UNION {[ks -> TorchValues] : ks \in SUBSET Keys}

\* A caller hands a batch to convert_torch_tensor_to_npy.
CallConvertTorch ==
    /\ conv.fn = "none"
    /\ \E args \in TorchArgLists, kwargs \in TorchKwargMaps :
           conv' = [fn |-> "convert_torch_tensor_to_npy", eager |-> FALSE,
                    args |-> args, kwargs |-> kwargs,
                    result |-> convert_torch_tensor_to_npy(args, kwargs)]
    /\ UNCHANGED <<samplerVars, tfVars, trainerVars>>

\* =============================== initialize_uninitialized (train_utils)

\* The variables a graph can hold.  A variable is "absent" until a graph
\* node creates it, "uninit" until its initializer has run, "init" while it
\* holds its initial value and "trained" once a training step has updated it.
Vars == 1..MaxVars

\* tf.global_variables()
global_variables(vs) == {v \in Vars : vs[v] # "absent"}

\* sess.run(tf.is_variable_initialized(var))
is_variable_initialized(vs, var) == vs[var] \in {"init", "trained"}

\* sess.run(tf.variables_initializer(var_list)): every listed variable is
\* assigned its initial value, whatever it held.
variables_initializer(vs, var_list) ==
    [v \in Vars |-> IF v \in var_list THEN "init" ELSE vs[v]]

\* A plausible slip: initialise every global variable.
not_initialized_vars_all(vs) == global_variables(vs)

\* lines 184-189: the global variables whose initialised flag is false
not_initialized_vars(vs) ==
    LET global_vars == global_variables(vs)
        is_not_initialized == [v \in global_vars |->
                                   is_variable_initialized(vs, v)]
    IN {v \in global_vars : ~is_not_initialized[v]}

\* initialize_uninitialized(sess), as the graph state it leaves
initialize_uninitialized(vs) ==
    IF not_initialized_vars(vs) # {}
    THEN variables_initializer(vs, not_initialized_vars(vs))
    ELSE vs

NoIU == [before |-> [v \in Vars |-> "absent"], ran |-> {},
         consecutive |-> FALSE, prevRan |-> {}]

\* A caller runs initialize_uninitialized(sess).
CallInitializeUninitialized ==
    /\ varState' = initialize_uninitialized(varState)
    /\ iu' = [before |-> varState,
              ran |-> not_initialized_vars(varState),
              consecutive |-> tfop = "initialize_uninitialized",
              prevRan |-> IF tfop = "initialize_uninitialized"
                          THEN iu.ran ELSE {}]
    /\ tfop' = "initialize_uninitialized"
    /\ UNCHANGED <<samplerVars, conv, trainerVars>>

\* A graph node (a layer, an optimizer slot) creates variable v.
CreateVariable(v) ==
    /\ varState[v] = "absent"
    /\ varState' = [varState EXCEPT ![v] = "uninit"]
    /\ tfop' = "create"
    /\ iu' = NoIU
    /\ UNCHANGED <<samplerVars, conv, trainerVars>>

\* A training step updates the initialised variable v.
TrainStep(v) ==
    /\ varState[v] = "init"
    /\ varState' = [varState EXCEPT ![v] = "trained"]
    /\ tfop' = "train"
    /\ iu' = NoIU
    /\ UNCHANGED <<samplerVars, conv, trainerVars>>

\* ====================================================== TfNetworkTrainer

\* create_optims_default_tf(optim_cls, **optim_params): one optimizer, "default"
create_optims_default_tf == {"default"}

\* The variables of the network itself, and those an optimizer adds to the
\* graph (its slots) when it is attached.
NetVars == 1..(MaxVars - 1)

OptimVars == Vars \ NetVars

\* module._add_losses(losses): loss nodes, no variables
_add_losses(vs) == vs

\* module._add_optims(optimizers): the optimizer's variables join the graph
_add_optims(vs) ==
    [v \in Vars |-> IF v \in OptimVars /\ vs[v] = "absent" THEN "uninit" ELSE vs[v]]

NoSetup == [steps |-> <<>>, created |-> 0, optims |-> {},
            graph |-> [v \in Vars |-> "absent"],
            before |-> [v \in Vars |-> "absent"], ran |-> {}]

\* One statement of _setup, on the state st it finds: the optimizers created
\* so far, the session graph, and what initialize_uninitialized found and ran.
SetupStep(step, st) ==
    LET logged == [st EXCEPT !.steps = Append(@, step)]
    IN CASE step = "optim_fn" ->
              [logged EXCEPT !.optims = create_optims_default_tf,
                             !.created = @ + 1]
         [] step = "_add_losses" ->
              [logged EXCEPT !.graph = _add_losses(st.graph)]
         [] step = "_add_optims" ->
              [logged EXCEPT !.graph = _add_optims(st.graph)]
         [] step = "initialize_uninitialized" ->
              [logged EXCEPT !.before = st.graph,
                             !.ran = not_initialized_vars(st.graph),
                             !.graph = initialize_uninitialized(st.graph)]
         [] OTHER -> logged

RECURSIVE RunSetup(_, _)
RunSetup(steps, st) ==
    IF steps = <<>> THEN st
    ELSE RunSetup(Tail(steps), SetupStep(Head(steps), st))

\* A plausible slip: the variables are initialised before the optimizers are
\* attached.
SetupStepsInitializeEarly ==
    <<"optim_fn", "super._setup", "_add_losses", "initialize_uninitialized",
      "_add_optims">>

\* The statements of _setup in the order of lines 176-186.
SetupSteps ==
    <<"optim_fn", "super._setup", "_add_losses", "_add_optims",
      "initialize_uninitialized">>

\* The graph _setup leaves, given the graph of the network handed in.
_setup(vs) == RunSetup(SetupSteps, [NoSetup EXCEPT !.graph = vs]).graph

\* A plausible slip: epochs counted from 0.
StartEpochFromZero(arg) == IF arg = NoneVal THEN 0 ELSE arg

\* The start_epoch __init__ passes on: the argument, or the default of line 45.
StartEpoch(arg) == IF arg = NoneVal THEN 1 ELSE arg

NotEnded == [found |-> NoneVal, before |-> NoneVal, loaded |-> FALSE,
             returned |-> NoneVal]

\* TfNetworkTrainer(network, ..., start_epoch=arg): BaseNetworkTrainer's
\* constructor keeps the starting epoch, then _setup creates the optimizers,
\* attaches losses and optimizers and initialises what is uninitialised.
\* net_vars and net_training are the state of the network handed in.
TfNetworkTrainer__init__(arg, net_vars, net_training) ==
    /\ tpc = "new"
    /\ tpc' = "idle"
    /\ start_arg' = arg
    /\ start_epoch' = StartEpoch(arg)
    /\ use_gpu' = TRUE
    /\ training' = net_training
    /\ LET graph == [v \in Vars |-> IF v \in NetVars THEN net_vars[v]
                                     ELSE "absent"]
           done == RunSetup(SetupSteps, [NoSetup EXCEPT !.graph = graph])
       IN /\ optimizers' = done.optims
          /\ setupLog' = [steps |-> done.steps, created |-> done.created]
          /\ varState' = _setup(graph)
          /\ iu' = [before |-> done.before, ran |-> done.ran,
                    consecutive |-> FALSE, prevRan |-> {}]
    /\ tfop' = "initialize_uninitialized"
    /\ UNCHANGED <<phase, batchLog, weightsVer, best, ended>>
    /\ UNCHANGED <<samplerVars, conv>>

\* A plausible slip: the flag is left as the last phase set it.
predict_data_mgr_keeps_flag ==
    /\ tpc = "idle"
    /\ tpc' = "predict"
    /\ phase' = "predict"
    /\ UNCHANGED <<training, start_arg, start_epoch, optimizers, setupLog, use_gpu,
                   batchLog, weightsVer, best, ended>>
    /\ UNCHANGED <<samplerVars, conv, tfVars>>

\* _train_single_epoch, line 223: the flag is set before the base class
\* iterates the batches.
_train_single_epoch ==
    /\ tpc = "idle"
    /\ tpc' = "train"
    /\ training' = TRUE
    /\ phase' = "train"
    /\ UNCHANGED <<start_arg, start_epoch, optimizers, setupLog, use_gpu, batchLog,
                   weightsVer, best, ended>>
    /\ UNCHANGED <<samplerVars, conv, tfVars>>

\* predict_data_mgr, line 248: the flag is cleared before the base class
\* iterates the batches.
predict_data_mgr ==
    /\ tpc = "idle"
    /\ tpc' = "predict"
    /\ training' = FALSE
    /\ phase' = "predict"
    /\ UNCHANGED <<start_arg, start_epoch, optimizers, setupLog, use_gpu, batchLog,
                   weightsVer, best, ended>>
    /\ UNCHANGED <<samplerVars, conv, tfVars>>

\* One batch of the running phase: it runs under the flag as it stands; a
\* training batch steps the optimizer, a prediction batch changes nothing.
ProcessBatch ==
    /\ tpc \in {"train", "predict"}
    /\ batchLog' = batchLog \cup {<<tpc, training>>}
    /\ weightsVer' = IF tpc = "train" /\ weightsVer < MaxSteps
                     THEN weightsVer + 1 ELSE weightsVer
    /\ UNCHANGED <<tpc, start_arg, start_epoch, optimizers, setupLog, use_gpu, training,
                   phase, best, ended>>
    /\ UNCHANGED <<samplerVars, conv, tfVars>>

\* The data feed is exhausted: the phase returns.
EndPhase ==
    /\ tpc \in {"train", "predict"}
    /\ tpc' = "idle"
    /\ UNCHANGED <<start_arg, start_epoch, optimizers, setupLog, use_gpu, training,
                   phase, batchLog, weightsVer, best, ended>>
    /\ UNCHANGED <<samplerVars, conv, tfVars>>

\* The training loop saves the current weights as checkpoint_best.
SaveBest ==
    /\ tpc = "idle"
    /\ best' = weightsVer
    /\ UNCHANGED <<tpc, start_arg, start_epoch, optimizers, setupLog, use_gpu, training,
                   phase, batchLog, weightsVer, ended>>
    /\ UNCHANGED <<samplerVars, conv, tfVars>>

\* os.path.isfile(os.path.join(save_path, 'checkpoint_best.meta'))
isfile_checkpoint_best == best # NoneVal

\* update_state(checkpoint_best): load_state restores the checkpoint's
\* weights into self.module.
update_state(checkpoint) == checkpoint

\* A plausible slip: the best checkpoint is never loaded.
_at_training_end_no_load ==
    /\ tpc = "idle"
    /\ tpc' = "finished"
    /\ ended' = [found |-> best, before |-> weightsVer, loaded |-> FALSE,
                 returned |-> weightsVer]
    /\ UNCHANGED <<start_arg, start_epoch, optimizers, setupLog, use_gpu, training,
                   phase, batchLog, weightsVer, best>>
    /\ UNCHANGED <<samplerVars, conv, tfVars>>

\* _at_training_end: load checkpoint_best if its file exists; return the module
_at_training_end ==
    /\ tpc = "idle"
    /\ tpc' = "finished"
    /\ weightsVer' = IF isfile_checkpoint_best
                     THEN update_state(best) ELSE weightsVer
    /\ ended' = [found |-> best, before |-> weightsVer,
                 loaded |-> isfile_checkpoint_best,
                 returned |-> weightsVer']
    /\ UNCHANGED <<start_arg, start_epoch, optimizers, setupLog, use_gpu, training,
                   phase, batchLog, best>>
    /\ UNCHANGED <<samplerVars, conv, tfVars>>

\* ======================================================= specifications

Init ==
    /\ indices = 0
    /\ weights = NoneVal
    /\ ctor = "pending"
    /\ attrs = {}
    /\ _indices = <<>>
    /\ _weights = NoneVal
    /\ _global_index = 0
    /\ samples = <<>>
    /\ call = NoCall
    /\ passTotal = 0
    /\ run = NoRun
    /\ th = [t \in Threads |-> Idle]
    /\ handed = 0
    /\ overlapped = FALSE
    /\ conv = NoConv
    /\ varState = [v \in Vars |-> "absent"]
    /\ tfop = "none"
    /\ iu = NoIU
    /\ tpc = "new"
    /\ start_arg = NoneVal
    /\ start_epoch = NoneVal
    /\ optimizers = {}
    /\ setupLog = [steps |-> <<>>, created |-> 0]
    /\ use_gpu = FALSE
    /\ training = FALSE
    /\ phase = "none"
    /\ batchLog = {}
    /\ weightsVer = 0
    /\ best = NoneVal
    /\ ended = NotEnded

\* The sampler: one construction, then any sequence of _get_indices calls.
NextSampler ==
    \/ \E N \in 0..MaxN, w \in {NoneVal} \cup (0..(MaxN + 1)) : __init__(N, w)
    \/ \E n \in 0..MaxReq : _get_indices(n)

SpecSampler == Init /\ [][NextSampler]_vars

\* The sampler shared by two callers whose _get_indices calls interleave.
NextThreads ==
    \/ \E N \in 0..MaxN, w \in {NoneVal} \cup (0..(MaxN + 1)) : __init__(N, w)
    \/ \E t \in Threads, n \in 0..MaxReq : ThreadStep(t, n)

SpecThreads == Init /\ [][NextThreads]_vars

\* The batch converters: one call of either on any batch.
NextConvert == CallConvertIdentity \/ CallConvertTf \/ CallConvertTorch

SpecConvert == Init /\ [][NextConvert]_vars

\* The session graph: variables are created and trained, and
\* initialize_uninitialized is run at any point.
NextTF ==
    \/ CallInitializeUninitialized
    \/ \E v \in Vars : CreateVariable(v)
    \/ \E v \in Vars : TrainStep(v)

SpecTF == Init /\ [][NextTF]_vars

\* The trainer: constructed once, then train and predict phases, saves of
\* the best checkpoint, and the end of training.
NextTrainer ==
    \/ \E arg \in {NoneVal} \cup (0..MaxEpoch),
          net_vars \in [NetVars -> {"uninit", "init", "trained"}],
          net_training \in BOOLEAN :
            TfNetworkTrainer__init__(arg, net_vars, net_training)
    \/ _train_single_epoch
    \/ predict_data_mgr
    \/ ProcessBatch
    \/ EndPhase
    \/ SaveBest
    \/ _at_training_end

SpecTrainer == Init /\ [][NextTrainer]_vars

\* ------------------------------------------------ claims on the sampler

Min(a, b) == IF a <= b THEN a ELSE b

\* The weights fit the population: none given, or one weight per index.
WeightsFit == weights = NoneVal \/ weights = indices

\* C1: on a sampler over N >= 1 indices, every _get_indices(k) call with
\* 1 <= k <= N either returns a non-empty batch that keeps the pass total
\* (equal to the cursor) within N, or, once the pass has handed out exactly N
\* indices, raises StopIteration, returns nothing and leaves the cursor at 0.
C1_PassCoversPopulation ==
    (call.op = "_get_indices" /\ WeightsFit /\ call.n \in 1..indices) =>
        \/ /\ call.raised = "none"
           /\ call.count >= 1
           /\ passTotal = call.total + call.count
           /\ passTotal <= indices
           /\ "_global_index" \in attrs /\ _global_index = passTotal
        \/ /\ call.raised = "StopIteration"
           /\ call.total = indices
           /\ samples = <<>>
           /\ "_global_index" \in attrs /\ _global_index = 0
           /\ passTotal = 0

\* C2: a _get_indices(n) call, n >= 0, that finds the cursor c below the
\* population size N returns exactly min(n, N - c) indices, each in 0..N-1,
\* and advances the cursor by the number returned.
C2_BatchIsMinOfRequestAndRest ==
    (call.op = "_get_indices" /\ WeightsFit /\ call.raised # "StopIteration") =>
        /\ call.raised = "none"
        /\ call.before \in 0..(indices - 1)
        /\ call.count = Min(call.n, indices - call.before)
        /\ Len(samples) = call.count
        /\ \A i \in 1..Len(samples) : samples[i] \in 0..(indices - 1)
        /\ _global_index = call.before + call.count

\* C3: constructing with a weight vector whose length differs from the
\* population size fails in the constructor with InvalidConfiguration
\* (ValueError), so no such sampler is ever sampled from.
C3_MismatchFailsAtConstruction ==
    (ctor # "pending" /\ ~WeightsFit) =>
        /\ ctor = "ValueError"
        /\ call.op = "__init__"

\* C4: once the sampler is constructed the cursor exists and stays within
\* 0..N, and a call that did not raise StopIteration never moves it back to 0.
C4_CursorInRange ==
    (ctor # "pending") =>
        /\ "_global_index" \in attrs
        /\ _global_index \in 0..Len(_indices)
        /\ (call.op = "_get_indices" /\ call.before > 0 /\ _global_index = 0)
               => call.raised = "StopIteration"

\* C5: constructing from N labels without weights succeeds and starts at
\* cursor 0; len(sampler) is N then and after every later call.
C5_UniformConstructionSucceeds ==
    (ctor # "pending" /\ weights = NoneVal) =>
        /\ ctor = "returned"
        /\ __len__ = indices
        /\ (call.op = "__init__" => "_global_index" \in attrs /\ _global_index = 0)

\* --------------------------------------- claims on the batch converters

\* What normalising one entry is to give: a zero-rank array (or, in eager
\* mode, the array of a zero-rank tensor) as a rank-1 array of length 1 with
\* the same value, any other entry as it is.
Normalized(c, v) ==
    LET isTensor == c.fn = "convert_tf_tensor_to_npy" /\ c.eager /\ v.kind = "Tensor"
    IN IF (v.kind = "ndarray" \/ isTensor) /\ v.rank = 0
       THEN Arr1(v.data)
       ELSE v

\* C7: a converter call returns as many positional entries as it was given,
\* in the same order, and the same keyword keys; every zero-rank array entry
\* comes back as a rank-1, length-1 array of the same value and every other
\* entry as it is.
C7_NormalizeKeepsShapeOfBatch ==
    (conv.fn # "none") =>
        /\ conv.result.exc = "none"
        /\ Len(conv.result.args) = Len(conv.args)
        /\ \A i \in 1..Len(conv.args) :
               conv.result.args[i] = Normalized(conv, conv.args[i])
        /\ DOMAIN conv.result.kwargs = DOMAIN conv.kwargs
        /\ \A k \in DOMAIN conv.kwargs :
               conv.result.kwargs[k] = Normalized(conv, conv.kwargs[k])

\* ------------------------------------- claims on initialize_uninitialized

\* C6: a call of initialize_uninitialized initialises exactly the variables
\* that were uninitialised when it was called and leaves every variable that
\* was initialised as it was; after it every global variable is initialised,
\* and a call that directly follows another one initialises nothing.
C6_InitializesExactlyTheUninitialized ==
    (tfop = "initialize_uninitialized") =>
        /\ iu.ran = {v \in Vars : iu.before[v] = "uninit"}
        /\ \A v \in Vars :
               varState[v] = IF v \in iu.ran THEN "init" ELSE iu.before[v]
        /\ \A v \in global_variables(varState) :
               is_variable_initialized(varState, v)
        /\ iu.consecutive => (iu.ran = {} /\ varState = iu.before)

\* Two calls in a row with a trained variable in the graph: the first
\* initialised something, the second nothing.
C6_Witness ==
    /\ tfop = "initialize_uninitialized"
    /\ iu.consecutive
    /\ iu.prevRan # {}
    /\ \E v \in Vars : varState[v] = "trained"

\* ---------------------------------------------------- claims on the trainer

\* C8: when training has ended, the model holds and the trainer returned the
\* weights of checkpoint_best if that checkpoint existed (it was loaded), and
\* otherwise the last-trained weights, unchanged and with no load.
C8_BestLoadedIfPresent ==
    (tpc = "finished") =>
        /\ ended.returned = weightsVer
        /\ IF ended.found # NoneVal
           THEN ended.loaded /\ weightsVer = ended.found
           ELSE ~ended.loaded /\ weightsVer = ended.before

\* Training ended with a best checkpoint that differs from the last weights.
C8_Witness ==
    /\ tpc = "finished"
    /\ ended.found # NoneVal
    /\ ended.found # ended.before

\* C9: every training batch ran with the mode flag set and every prediction
\* batch with it cleared, and once a phase has been entered the flag is set
\* exactly when the phase entered last is a train phase.
C9_ModeFlagFollowsPhase ==
    /\ \A b \in batchLog : b[2] = (b[1] = "train")
    /\ (phase # "none") => (training = (phase = "train"))

\* Prediction batches ran after training batches, and training was entered again.
C9_Witness ==
    /\ <<"train", TRUE>> \in batchLog
    /\ <<"predict", FALSE>> \in batchLog
    /\ phase = "train"

\* C10 as stated: a trainer constructed without a start epoch starts at epoch 0.
C10_FreshStartsAtZero ==
    (tpc # "new" /\ start_arg = NoneVal) => start_epoch = 0

\* C10 as amended: a trainer constructed without a start epoch starts at
\* epoch 1, the default of the start_epoch parameter.
C10_FreshStartsAtOne ==
    (tpc # "new" /\ start_arg = NoneVal) => start_epoch = 1

\* A trainer constructed without a start epoch is idle.
C10_Witness ==
    /\ tpc = "idle"
    /\ start_arg = NoneVal
    /\ phase = "none"

\* The place of step in the steps _setup ran (0: it did not run).
Place(step) ==
    IF \E i \in 1..Len(setupLog.steps) : setupLog.steps[i] = step
    THEN CHOOSE i \in 1..Len(setupLog.steps) : setupLog.steps[i] = step
    ELSE 0

Times(step) ==
    Cardinality({i \in 1..Len(setupLog.steps) : setupLog.steps[i] = step})

\* C11: in a constructed trainer the optimizer set was created exactly once,
\* before losses and optimizers were attached, and initialize_uninitialized
\* ran once, after both attachments; every variable the attachments added is
\* initialised, and every variable that was initialised before that call
\* holds what it held.
C11_SetupOrder ==
    (tpc # "new") =>
        /\ setupLog.created = 1 /\ Times("optim_fn") = 1
        /\ optimizers = {"default"}
        /\ Times("_add_losses") = 1 /\ Times("_add_optims") = 1
        /\ Times("initialize_uninitialized") = 1
        /\ Place("optim_fn") < Place("_add_losses")
        /\ Place("optim_fn") < Place("_add_optims")
        /\ Place("_add_losses") < Place("initialize_uninitialized")
        /\ Place("_add_optims") < Place("initialize_uninitialized")
        /\ \A v \in OptimVars : is_variable_initialized(varState, v)
        /\ \A v \in global_variables(varState) :
               is_variable_initialized(varState, v)
        /\ \A v \in Vars :
               is_variable_initialized(iu.before, v) => varState[v] = iu.before[v]

\* A trainer set up on a network with a trained variable, whose optimizer
\* variables initialize_uninitialized had to initialise.
C11_Witness ==
    /\ tpc = "idle"
    /\ \E v \in NetVars : iu.before[v] = "trained" /\ varState[v] = "trained"
    /\ OptimVars \subseteq iu.ran
    /\ OptimVars # {}

\* C13: convert_torch_tensor_to_npy returns as many positional entries as it
\* was given, in the same order, each tensor as the array of its values and
\* each other entry with the values it had, and the same keyword keys.
C13_TorchKeepsAllPositionals ==
    (conv.fn = "convert_torch_tensor_to_npy") =>
        /\ conv.result.exc = "none"
        /\ Len(conv.result.args) = Len(conv.args)
        /\ \A i \in 1..Len(conv.args) :
               /\ conv.result.args[i].data = conv.args[i].data
               /\ conv.result.args[i].kind =
                      IF IsTorchTensor(conv.args[i]) THEN "ndarray"
                      ELSE conv.args[i].kind
        /\ DOMAIN conv.result.kwargs = DOMAIN conv.kwargs

\* ------------------------------------- further claims on the sampler

CeilDiv(a, b) == (a + b - 1) \div b

\* C14: every _get_indices(n) call with n >= 1 is a batch of at least one
\* index or StopIteration, and a run of calls with the same n >= 1 holds at
\* most ceil(N/n) batches; a call with n = 0 that finds the cursor below
\* N >= 1 returns nothing, raises nothing and leaves the cursor where it was.
C14_PassEnds ==
    (call.op = "_get_indices" /\ WeightsFit) =>
        /\ (call.n >= 1) =>
               /\ call.raised \in {"none", "StopIteration"}
               /\ call.raised = "none" => call.count >= 1
        /\ (run.n >= 1) => run.batches <= CeilDiv(indices, run.n)
        /\ (call.n = 0 /\ indices >= 1 /\ call.before < indices) =>
               /\ call.raised = "none"
               /\ call.count = 0
               /\ _global_index = call.before

\* C12, for calls that never overlap: a finished _get_indices(k) call with
\* 1 <= k <= N has either returned a batch that keeps the indices handed out
\* in the pass, equal to the cursor, within N, or raised StopIteration after
\* exactly N indices were handed out.
C12_SerializedPassIsExact ==
    \A t \in Threads :
        (th[t].pc = "idle" /\ th[t].n \in 1..indices /\ WeightsFit
         /\ ~overlapped) =>
            \/ /\ th[t].raised = "none"
               /\ handed <= indices
            \/ /\ th[t].raised = "StopIteration"
               /\ th[t].total = indices

\* No more indices are handed out in a pass than the population holds.
NoOvershoot == handed <= indices

====
